---- MODULE Spec2Model ----
(***************************************************************************)
(* Revision quiz: the answer matcher of main.py (normalisation, option    *)
(* folding, word numbers, numeric parsing, fuzzy ratio, the priority      *)
(* chain of ask_question), the performance store with its file, the       *)
(* terminal control flow (main_menu, start_quiz) and the web handlers of  *)
(* webui.py.                                                               *)
(*                                                                         *)
(* A Python str is a sequence of characters.  A character is a one-letter *)
(* string; characters outside printable ASCII (and the double quote) are  *)
(* written by name: "TAB", "NL", "QUOT", "LSQUO", "RSQUO", "LDQUO",       *)
(* "RDQUO" (typographic quotes), "FI_LIG" (U+FB01), "FW_A" (U+FF21),      *)
(* "NBSP" (U+00A0).                                                        *)
(***************************************************************************)
EXTENDS Integers, Sequences, FiniteSets, TLC

VARIABLES
    performance,    \* main_menu's in-memory store: key -> topic -> stats
    disk,           \* performance.json: its kind and, when well formed, its store
    questionFiles,  \* questions/<key>.json: key -> list of questions, or missing
    hasRapidfuzz,   \* _HAS_RAPIDFUZZ: whether the import of rapidfuzz succeeded
    pc,             \* where the terminal program is waiting for input
    quizKey,        \* start_quiz's level, subject and key
    quizIdx,        \* number of questions of the running session already asked
    verdict,        \* accepted / matched of the last ask_question
    web,            \* the last web request and the response it got
    arg,            \* input of the pure function under check
    out,            \* its result(s)
    phase           \* how far the pure function has been applied

vars == <<performance, disk, questionFiles, hasRapidfuzz, pc, quizKey,
          quizIdx, verdict, web, arg, out, phase>>

sysVars == <<performance, disk, questionFiles, hasRapidfuzz, pc, quizKey,
             quizIdx, verdict, web>>

fnVars == <<arg, out, phase>>

(***************************************************************************)
(* Characters                                                              *)
(***************************************************************************)
LowerLetters == <<"a","b","c","d","e","f","g","h","i","j","k","l","m",
                  "n","o","p","q","r","s","t","u","v","w","x","y","z">>

UpperLetters == <<"A","B","C","D","E","F","G","H","I","J","K","L","M",
                  "N","O","P","Q","R","S","T","U","V","W","X","Y","Z">>

DigitChars == <<"0","1","2","3","4","5","6","7","8","9">>

Range(f) == {f[i] : i \in DOMAIN f}

IndexOf(c, seq) == CHOOSE i \in DOMAIN seq : seq[i] = c

\* str.isspace / the regex class \s, on the characters of the model
IsSpace(c) == c \in {" ", "TAB", "NL", "NBSP"}

\* the regex class [0-9a-z]
IsAlnumLower(c) == c \in Range(DigitChars) \cup Range(LowerLetters)

RECURSIVE FlatMap(_, _)
FlatMap(F(_), s) ==
    IF s = <<>> THEN <<>> ELSE F(Head(s)) \o FlatMap(F, Tail(s))

\* unicodedata.normalize("NFKC", s), character by character
NFKCChar(c) ==
    CASE c = "FI_LIG" -> <<"f", "i">>
      [] c = "FW_A"   -> <<"A">>
      [] c = "NBSP"   -> <<" ">>
      [] OTHER        -> <<c>>

\* .replace of the four typographic quotes
ReplaceQuoteChar(c) ==
    CASE c \in {"RSQUO", "LSQUO"} -> <<"'">>
      [] c \in {"LDQUO", "RDQUO"} -> <<"QUOT">>
      [] OTHER                    -> <<c>>

\* str.lower, character by character
LowerChar(c) ==
    IF c \in Range(UpperLetters)
    THEN <<LowerLetters[IndexOf(c, UpperLetters)]>>
    ELSE <<c>>

\* re.sub(r"[^0-9a-z\s]", " ", s), character by character
PunctToSpaceChar(c) == IF IsAlnumLower(c) \/ IsSpace(c) THEN <<c>> ELSE <<" ">>

RECURSIVE LStrip(_)
LStrip(s) == IF s # <<>> /\ IsSpace(Head(s)) THEN LStrip(Tail(s)) ELSE s

RECURSIVE RStrip(_)
RStrip(s) ==
    IF s # <<>> /\ IsSpace(s[Len(s)]) THEN RStrip(SubSeq(s, 1, Len(s) - 1)) ELSE s

\* str.strip()
Strip(s) == RStrip(LStrip(s))

\* re.sub(r"\s+", " ", s): every maximal run of whitespace becomes one space
RECURSIVE CollapseSpaces(_)
CollapseSpaces(s) ==
    IF s = <<>> THEN <<>>
    ELSE IF IsSpace(Head(s))
         THEN <<" ">> \o CollapseSpaces(LStrip(s))
         ELSE <<Head(s)>> \o CollapseSpaces(Tail(s))

\* normalize_text without its last .strip()
normalize_text_NoFinalStrip(s) ==
    LET s1 == FlatMap(NFKCChar, s)
        s2 == FlatMap(ReplaceQuoteChar, s1)
        s3 == FlatMap(LowerChar, Strip(s2))
        s4 == FlatMap(PunctToSpaceChar, s3)
    IN  CollapseSpaces(s4)

normalize_text(s) ==
    LET s1 == FlatMap(NFKCChar, s)
        s2 == FlatMap(ReplaceQuoteChar, s1)
        s3 == FlatMap(LowerChar, Strip(s2))
        s4 == FlatMap(PunctToSpaceChar, s3)
    IN  Strip(CollapseSpaces(s4))

(***************************************************************************)
(* Optional values: Python's None, or a value                              *)
(***************************************************************************)
NoneV == [isNone |-> TRUE]

Some(v) == [isNone |-> FALSE, val |-> v]

(***************************************************************************)
(* Option letters and word numbers                                         *)
(***************************************************************************)
\* str.split(): the maximal runs of non-whitespace characters
RECURSIVE TakeWord(_)
TakeWord(s) ==
    IF s = <<>> \/ IsSpace(Head(s)) THEN <<>> ELSE <<Head(s)>> \o TakeWord(Tail(s))

RECURSIVE Split(_)
Split(s) ==
    LET t == LStrip(s)
        w == TakeWord(t)
    IN  IF t = <<>> THEN <<>>
        ELSE <<w>> \o Split(SubSeq(t, Len(w) + 1, Len(t)))

\* re.match(r"^([a-zA-Z0-9])[\.\)]?$", first)
OptionRegexMatches(first) ==
    /\ Len(first) \in {1, 2}
    /\ first[1] \in Range(LowerLetters) \cup Range(UpperLetters) \cup Range(DigitChars)
    /\ Len(first) = 2 => first[2] \in {".", ")"}

\* the option letter or digit when the first token is one, the text otherwise
OptionOfFirst(first, s) == IF OptionRegexMatches(first) THEN <<first[1]>> ELSE s

\* normalize_option after s = normalize_text(raw)
OptionOfNorm(s) == IF s = <<>> THEN <<>> ELSE OptionOfFirst(Split(s)[1], s)

normalize_option(raw) == OptionOfNorm(normalize_text(raw))

\* _WORD_NUMS, as its (word, value) pairs
WordNumPairs ==
    {
       <<<<"z","e","r","o">>, 0>>,
       <<<<"o","n","e">>, 1>>,
       <<<<"t","w","o">>, 2>>,
       <<<<"t","h","r","e","e">>, 3>>,
       <<<<"f","o","u","r">>, 4>>,
       <<<<"f","i","v","e">>, 5>>,
       <<<<"s","i","x">>, 6>>,
       <<<<"s","e","v","e","n">>, 7>>,
       <<<<"e","i","g","h","t">>, 8>>,
       <<<<"n","i","n","e">>, 9>>,
       <<<<"t","e","n">>, 10>>,
       <<<<"e","l","e","v","e","n">>, 11>>,
       <<<<"t","w","e","l","v","e">>, 12>>,
       <<<<"t","h","i","r","t","e","e","n">>, 13>>,
       <<<<"f","o","u","r","t","e","e","n">>, 14>>,
       <<<<"f","i","f","t","e","e","n">>, 15>>,
       <<<<"s","i","x","t","e","e","n">>, 16>>,
       <<<<"s","e","v","e","n","t","e","e","n">>, 17>>,
       <<<<"e","i","g","h","t","e","e","n">>, 18>>,
       <<<<"n","i","n","e","t","e","e","n">>, 19>>,
       <<<<"t","w","e","n","t","y">>, 20>>,
       <<<<"t","h","i","r","t","y">>, 30>>,
       <<<<"f","o","r","t","y">>, 40>>,
       <<<<"f","i","f","t","y">>, 50>>,
       <<<<"s","i","x","t","y">>, 60>>,
       <<<<"s","e","v","e","n","t","y">>, 70>>,
       <<<<"e","i","g","h","t","y">>, 80>>,
       <<<<"n","i","n","e","t","y">>, 90>>
    }

InWordNums(w) == \E p \in WordNumPairs : p[1] = w

WordNumValue(w) == (CHOOSE p \in WordNumPairs : p[1] = w)[2]

\* the while loop of word_number_to_int, from index i with the running total
RECURSIVE WordNumberLoop(_, _, _)
WordNumberLoop(parts, i, total) ==
    IF ~(i < Len(parts)) THEN Some(total)
    ELSE LET w == parts[i + 1]
         IN  IF InWordNums(w)
             THEN LET val == WordNumValue(w)
                  IN  IF /\ val >= 20
                         /\ i + 1 < Len(parts)
                         /\ InWordNums(parts[i + 2])
                         /\ WordNumValue(parts[i + 2]) < 10
                      THEN WordNumberLoop(parts, i + 2,
                                          total + val + WordNumValue(parts[i + 2]))
                      ELSE WordNumberLoop(parts, i + 1, total + val)
             ELSE NoneV

\* word_number_to_int after s = normalize_text(s)
WordNumberOfNorm(s) == IF s = <<>> THEN NoneV ELSE WordNumberLoop(Split(s), 0, 0)

word_number_to_int(raw) == WordNumberOfNorm(normalize_text(raw))

(***************************************************************************)
(* Numeric values: float(...) on a normalised string                       *)
(***************************************************************************)
IsDigits(s) == s # <<>> /\ \A i \in DOMAIN s : s[i] \in Range(DigitChars)

DigitValue(c) == IndexOf(c, DigitChars) - 1

RECURSIVE DigitsValue(_)
DigitsValue(s) ==
    IF s = <<>> THEN 0
    ELSE 10 * DigitsValue(SubSeq(s, 1, Len(s) - 1)) + DigitValue(s[Len(s)])

RECURSIVE Pow10(_)
Pow10(k) == IF k = 0 THEN 1 ELSE 10 * Pow10(k - 1)

\* A float is finite (val, exact: the strings of the model stay far below
\* 2^53), an infinity or a NaN.
Fin(n) == [kind |-> "fin", val |-> n]

Inf == [kind |-> "inf", val |-> 0]

NaN == [kind |-> "nan", val |-> 0]

\* float(s) for s over [0-9a-z ] without a space at either end: digits,
\* digits "e" digits, "inf", "infinity" or "nan"; ValueError (None) otherwise
ParseFloat(s) ==
    IF IsDigits(s) THEN Some(Fin(DigitsValue(s)))
    ELSE IF s \in {<<"i","n","f">>, <<"i","n","f","i","n","i","t","y">>} THEN Some(Inf)
    ELSE IF s = <<"n","a","n">> THEN Some(NaN)
    ELSE IF \E k \in DOMAIN s :
               /\ s[k] = "e"
               /\ IsDigits(SubSeq(s, 1, k - 1))
               /\ IsDigits(SubSeq(s, k + 1, Len(s)))
         THEN LET k == CHOOSE k \in DOMAIN s : s[k] = "e"
              IN  Some(Fin(DigitsValue(SubSeq(s, 1, k - 1))
                           * Pow10(DigitsValue(SubSeq(s, k + 1, Len(s))))))
    ELSE NoneV

\* float(wn) of a parsed word number, None when there is none
WordFloat(wn) == IF wn.isNone THEN NoneV ELSE Some(Fin(wn.val))

\* try: float(s_norm); except ValueError: the word number
FloatOrWord(f, wn) == IF ~f.isNone THEN f ELSE WordFloat(wn)

\* is_numeric after s_norm = normalize_text(s)
NumericOfNorm(s_norm) ==
    IF s_norm = <<>> THEN NoneV
    ELSE FloatOrWord(ParseFloat(s_norm), word_number_to_int(s_norm))

is_numeric(raw) == NumericOfNorm(normalize_text(raw))

\* abs(ua_num - ca_num) < 1e-9: the difference of an infinity or a NaN with
\* anything is an infinity or a NaN, never below 1e-9
NumbersClose(x, y) == x.kind = "fin" /\ y.kind = "fin" /\ x.val = y.val

(***************************************************************************)
(* Similarity: difflib.SequenceMatcher, or rapidfuzz's token_sort_ratio    *)
(***************************************************************************)
Max2(x, y) == IF x >= y THEN x ELSE y

\* length of the common run of a from i and b from j, inside a[..ahi], b[..bhi]
\* (positions are 1-based and the upper ends inclusive)
RECURSIVE CommonRun(_, _, _, _, _, _)
CommonRun(a, b, i, j, ahi, bhi) ==
    IF i <= ahi /\ j <= bhi /\ a[i] = b[j]
    THEN 1 + CommonRun(a, b, i + 1, j + 1, ahi, bhi)
    ELSE 0

\* SequenceMatcher.find_longest_match (no junk: isjunk is None, and autojunk
\* needs 200 elements): the longest matching block, of those the one that
\* starts earliest in a, of those the one that starts earliest in b
FindLongestMatch(a, b, alo, ahi, blo, bhi) ==
    LET blocks == {<<i, j, CommonRun(a, b, i, j, ahi, bhi)>> :
                       i \in alo..ahi, j \in blo..bhi}
        longest == {m \in blocks : \A n \in blocks : n[3] <= m[3]}
        first == CHOOSE m \in longest :
                     \A n \in longest :
                         m[1] < n[1] \/ (m[1] = n[1] /\ m[2] <= n[2])
    IN  IF blocks = {} \/ first[3] = 0 THEN <<alo, blo, 0>> ELSE first

\* SequenceMatcher.get_matching_blocks: total size of the blocks found by
\* recursing to the left and to the right of the longest match
RECURSIVE MatchingSize(_, _, _, _, _, _)
MatchingSize(a, b, alo, ahi, blo, bhi) ==
    LET m == FindLongestMatch(a, b, alo, ahi, blo, bhi)
        i == m[1]
        j == m[2]
        k == m[3]
    IN  IF k = 0 THEN 0
        ELSE k + (IF alo < i /\ blo < j
                  THEN MatchingSize(a, b, alo, i - 1, blo, j - 1) ELSE 0)
               + (IF i + k <= ahi /\ j + k <= bhi
                  THEN MatchingSize(a, b, i + k, ahi, j + k, bhi) ELSE 0)

\* length of a longest common subsequence, row by row
RECURSIVE LcsRow(_, _, _, _, _)
LcsRow(prev, c, b, j, acc) ==
    IF j > Len(b) THEN acc
    ELSE LcsRow(prev, c, b, j + 1,
                Append(acc, IF c = b[j] THEN prev[j] + 1
                            ELSE Max2(prev[j + 1], acc[j])))

\* (the test on the length of the row has the row computed before the next
\* one is started)
RECURSIVE LcsRows(_, _, _, _)
LcsRows(a, b, i, prev) ==
    IF i > Len(a) THEN prev[Len(b) + 1]
    ELSE LET row == LcsRow(prev, a[i], b, 1, <<0>>)
         IN  IF Len(row) = Len(b) + 1 THEN LcsRows(a, b, i + 1, row) ELSE 0

LcsLength(a, b) == LcsRows(a, b, 1, [j \in 1..(Len(b) + 1) |-> 0])

\* code point order on [0-9a-z]
CharOrd(c) == IndexOf(c, DigitChars \o LowerLetters)

RECURSIVE LexLess(_, _)
LexLess(u, v) ==
    IF v = <<>> THEN FALSE
    ELSE IF u = <<>> THEN TRUE
    ELSE IF Head(u) = Head(v) THEN LexLess(Tail(u), Tail(v))
    ELSE CharOrd(Head(u)) < CharOrd(Head(v))

RECURSIVE InsertSorted(_, _)
InsertSorted(w, ws) ==
    IF ws = <<>> THEN <<w>>
    ELSE IF LexLess(Head(ws), w) THEN <<Head(ws)>> \o InsertSorted(w, Tail(ws))
    ELSE <<w>> \o ws

RECURSIVE Sorted(_)
Sorted(ws) == IF ws = <<>> THEN <<>> ELSE InsertSorted(Head(ws), Sorted(Tail(ws)))

RECURSIVE JoinSpace(_)
JoinSpace(ws) ==
    IF ws = <<>> THEN <<>>
    ELSE IF Len(ws) = 1 THEN ws[1]
    ELSE ws[1] \o <<" ">> \o JoinSpace(Tail(ws))

\* " ".join(sorted(s.split()))
SortTokens(s) == JoinSpace(Sorted(Split(s)))

\* A score is the fraction 100 * num / den, kept exact.
\* difflib: SequenceMatcher(None, a, b).ratio() * 100.0 = 100 * 2M / (|a|+|b|)
DifflibScore(a, b) ==
    [num |-> 200 * MatchingSize(a, b, 1, Len(a), 1, Len(b)),
     den |-> Len(a) + Len(b)]

\* rapidfuzz: fuzz.token_sort_ratio(a, b) = 100 * 2 LCS / (|a'|+|b'|) of the
\* strings with their tokens sorted
IndelScore(sa, sb) == [num |-> 200 * LcsLength(sa, sb), den |-> Len(sa) + Len(sb)]

RapidfuzzScore(a, b) == IndelScore(SortTokens(a), SortTokens(b))

\* _fuzzy_ratio: rapidfuzz when it was imported, difflib otherwise
fuzzy_ratio(a, b, rf) ==
    IF rf THEN RapidfuzzScore(a, b) ELSE DifflibScore(a, b)

fuzzy_threshold == 88

(***************************************************************************)
(* The priority chain of ask_question, for one canonical answer            *)
(***************************************************************************)
RECURSIVE IsPrefix(_, _)
IsPrefix(p, s) ==
    IF p = <<>> THEN TRUE
    ELSE IF s = <<>> THEN FALSE
    ELSE Head(p) = Head(s) /\ IsPrefix(Tail(p), Tail(s))

\* Python's "p in s" on strings
RECURSIVE Contains(_, _)
Contains(s, p) ==
    IF IsPrefix(p, s) THEN TRUE
    ELSE IF s = <<>> THEN FALSE
    ELSE Contains(Tail(s), p)

\* rule 1 without its guards on user_norm and ca_norm
ExactMatch_NoGuard(user_norm, ca_norm) == user_norm = ca_norm

\* user_norm and ca_norm and user_norm == ca_norm
ExactMatch(user_norm, ca_norm) ==
    user_norm # <<>> /\ ca_norm # <<>> /\ user_norm = ca_norm

\* 1) exact normalized match
Rule1(user_raw, ca_raw, rf) ==
    ExactMatch(normalize_text(user_raw), normalize_text(ca_raw))

\* user_opt and ca_opt and user_opt == ca_opt
OptionMatch(user_option, ca_option) ==
    user_option # <<>> /\ ca_option # <<>> /\ user_option = ca_option

\* 2) option letter/number equivalence
Rule2(user_raw, ca_raw, rf) ==
    OptionMatch(normalize_option(user_raw), normalize_option(ca_raw))

\* ua_num is not None and ca_num is not None and abs(ua_num - ca_num) < 1e-9
NumericMatch(ua_num, ca_num) ==
    /\ ~ua_num.isNone
    /\ ~ca_num.isNone
    /\ NumbersClose(ua_num.val, ca_num.val)

\* 3) numeric matching
Rule3(user_raw, ca_raw, rf) ==
    NumericMatch(is_numeric(user_raw), is_numeric(ca_raw))

\* ca_norm and ca_norm in user_norm
ContainsMatch(user_norm, ca_norm) == ca_norm # <<>> /\ Contains(user_norm, ca_norm)

\* rule 4 without its guard on ca_norm
Rule4_NoGuard(user_raw, ca_raw, rf) ==
    Contains(normalize_text(user_raw), normalize_text(ca_raw))

\* 4) containment
Rule4(user_raw, ca_raw, rf) ==
    ContainsMatch(normalize_text(user_raw), normalize_text(ca_raw))

\* score >= fuzzy_threshold
AtLeastThreshold(score) == score.num >= fuzzy_threshold * score.den

\* user_norm and ca_norm and score >= fuzzy_threshold
FuzzyMatch(user_norm, ca_norm, rf) ==
    /\ user_norm # <<>>
    /\ ca_norm # <<>>
    /\ AtLeastThreshold(fuzzy_ratio(user_norm, ca_norm, rf))

\* 5) conservative fuzzy match: score >= fuzzy_threshold
Rule5(user_raw, ca_raw, rf) ==
    FuzzyMatch(normalize_text(user_raw), normalize_text(ca_raw), rf)

\* the body of the for loop: the number of the first rule that accepts
\* ca_raw (the branch that breaks), 0 when none does
RuleFired(user_raw, ca_raw, rf) ==
    IF Rule1(user_raw, ca_raw, rf) THEN 1
    ELSE IF Rule2(user_raw, ca_raw, rf) THEN 2
    ELSE IF Rule3(user_raw, ca_raw, rf) THEN 3
    ELSE IF Rule4(user_raw, ca_raw, rf) THEN 4
    ELSE IF Rule5(user_raw, ca_raw, rf) THEN 5
    ELSE 0

\* the for loop without its breaks: the last accepted answer wins
RECURSIVE MatchLoop_NoBreak(_, _, _, _)
MatchLoop_NoBreak(user_raw, answers, i, rf) ==
    LET ok(k) == RuleFired(user_raw, answers[k], rf) # 0
        hits == {k \in i..Len(answers) : ok(k)}
        last == CHOOSE k \in hits : \A h \in hits : h <= k
    IN  IF hits = {}
        THEN [accepted |-> FALSE, matched |-> NoneV, rule |-> 0,
              evaluated |-> Len(answers)]
        ELSE [accepted |-> TRUE, matched |-> Some(answers[last]),
              rule |-> RuleFired(user_raw, answers[last], rf),
              evaluated |-> Len(answers)]

\* the for loop over correct_answers_raw from position i: accepted, matched,
\* the rule that broke out of the loop, and how many answers were evaluated
RECURSIVE MatchLoop(_, _, _, _)

\* the end of one pass of the loop, rule r having fired on answers[i] (0 when
\* none did): break with that answer, or go on to the next one
LoopPass(r, user_raw, answers, i, rf) ==
    IF r # 0
    THEN [accepted |-> TRUE, matched |-> Some(answers[i]), rule |-> r,
          evaluated |-> i]
    ELSE MatchLoop(user_raw, answers, i + 1, rf)

MatchLoop(user_raw, answers, i, rf) ==
    IF i > Len(answers)
    THEN [accepted |-> FALSE, matched |-> NoneV, rule |-> 0,
          evaluated |-> Len(answers)]
    ELSE LoopPass(RuleFired(user_raw, answers[i], rf), user_raw, answers, i, rf)

(***************************************************************************)
(* Configuration, question bank and performance store                      *)
(***************************************************************************)
LEVELS == <<"GCSE", "ALevel">>

SUBJECTS == <<"Maths", "Further_Maths", "Physics", "Biology", "Chemistry",
              "Computer_Science">>

\* f"{level}_{subject}", kept as the pair it is built from
KeyOf(level, subject) == <<level, subject>>

EmptyMap == [x \in {} |-> 0]

\* d[k] = v on a dict
Put(d, k, v) == [x \in DOMAIN d \cup {k} |-> IF x = k THEN v ELSE d[x]]

Stats(a, c) == [attempted |-> a, correct |-> c]

\* isinstance(correct_answer, list): a list is used as it is, a single
\* answer becomes a list of one
CorrectAnswersRaw(question) ==
    IF question.answer.isList THEN question.answer.val
    ELSE <<question.answer.val>>

\* load_questions: the list of the file, [] when the file is missing
load_questions(files, level, subject) ==
    LET f == files[KeyOf(level, subject)]
    IN  IF ~f.exists THEN <<>> ELSE f.questions

\* load_performance: {} for a missing, empty or corrupted file
load_performance(file) ==
    IF file.kind = "missing" THEN EmptyMap
    ELSE IF file.kind = "empty" THEN EmptyMap
    ELSE IF file.kind = "json" THEN file.store
    ELSE EmptyMap

\* save_performance: json.dump of the whole store
save_performance(store) == [kind |-> "json", store |-> store]

\* webui.load_perf: {} for a missing or empty file; json.loads raises
\* JSONDecodeError on a corrupted one, and nothing catches it
load_perf(file) ==
    IF file.kind = "missing" THEN [raised |-> FALSE, store |-> EmptyMap]
    ELSE IF file.kind = "empty" THEN [raised |-> FALSE, store |-> EmptyMap]
    ELSE IF file.kind = "json" THEN [raised |-> FALSE, store |-> file.store]
    ELSE [raised |-> TRUE, store |-> EmptyMap]

\* if key not in performance: performance[key] = {}
EnsureKey(store, key) ==
    IF key \in DOMAIN store THEN store ELSE Put(store, key, EmptyMap)

\* the bookkeeping with "attempted" counted only for accepted answers
RecordAnswer_CorrectOnly(store, key, topic, accepted) ==
    LET topics == store[key]
        old == IF topic \in DOMAIN topics THEN topics[topic] ELSE Stats(0, 0)
    IN  Put(store, key, Put(topics, topic,
            Stats(old.attempted + (IF accepted THEN 1 ELSE 0), old.correct + 1)))

\* the bookkeeping that resets the other topics of the key
RecordAnswer_DropsOthers(store, key, topic, accepted) ==
    LET topics == store[key]
        old == IF topic \in DOMAIN topics THEN topics[topic] ELSE Stats(0, 0)
    IN  Put(store, key, Put(EmptyMap, topic,
            Stats(old.attempted + 1, old.correct + (IF accepted THEN 1 ELSE 0))))

\* the bookkeeping of ask_question: the topic entry is created when absent,
\* attempted += 1, and correct += 1 when the answer was accepted
RecordAnswer(store, key, topic, accepted) ==
    LET topics == store[key]
        old == IF topic \in DOMAIN topics THEN topics[topic] ELSE Stats(0, 0)
    IN  Put(store, key, Put(topics, topic,
            Stats(old.attempted + 1, old.correct + (IF accepted THEN 1 ELSE 0))))

\* the same bookkeeping, written out again in webui.quiz
WebRecordAnswer(store, key, topic, credited) ==
    LET topics == store[key]
        old == IF topic \in DOMAIN topics THEN topics[topic] ELSE Stats(0, 0)
    IN  Put(store, key, Put(topics, topic,
            Stats(old.attempted + 1, old.correct + (IF credited THEN 1 ELSE 0))))

\* attempts recorded under a key of a store (0 when the key is absent)
RECURSIVE SumAttempted(_, _)
SumAttempted(topics, names) ==
    IF names = {} THEN 0
    ELSE LET t == CHOOSE t \in names : TRUE
         IN  topics[t].attempted + SumAttempted(topics, names \ {t})

AttemptsUnder(store, key) ==
    IF key \in DOMAIN store THEN SumAttempted(store[key], DOMAIN store[key]) ELSE 0

\* str.lower() on a raw string
RawLowerChar(c) == IF c = "FW_A" THEN <<"FW_a">> ELSE LowerChar(c)

\* a.lower().strip()
LowerStrip(s) == Strip(FlatMap(RawLowerChar, s))

\* webui.quiz: any(ans in user_answer.lower().strip() for ans in correct_answer)
WebCredits(user_answer, question) ==
    LET correct_answer == CorrectAnswersRaw(question)
    IN  \E i \in DOMAIN correct_answer :
            Contains(LowerStrip(user_answer), LowerStrip(correct_answer[i]))

\* questions[q_index] on a Python list: negative indices count from the end
InRange(list, i) == -Len(list) <= i /\ i < Len(list)

PyIndex(list, i) == IF i >= 0 THEN list[i + 1] ELSE list[Len(list) + i + 1]

(***************************************************************************)
(* Bounds and bounded inputs                                               *)
(***************************************************************************)
MaxLen == 3

MaxAttempted == 2

MaxAnswers == 2

MaxTokens == 3

\* responses given to the matcher: "3", "Three!", "one two", "1e1", "A",
\* "in Paris", "pariss", "b a", "twenty one", "", "?!", "x"
MatchResponses ==
    { <<"3">>,
      <<"T","h","r","e","e","!">>,
      <<"o","n","e"," ","t","w","o">>,
      <<"1","e","1">>,
      <<"A">>,
      <<"i","n"," ","P","a","r","i","s">>,
      <<"p","a","r","i","s","s">>,
      <<"b"," ","a">>,
      <<"t","w","e","n","t","y"," ","o","n","e">>,
      <<>>,
      <<"?","!">>,
      <<"x">> }

\* canonical answers: "three", "3", "Paris", "a)", "?!", "ten", "a b", "21"
MatchAnswers ==
    { <<"t","h","r","e","e">>,
      <<"3">>,
      <<"P","a","r","i","s">>,
      <<"a",")">>,
      <<"?","!">>,
      <<"t","e","n">>,
      <<"a"," ","b">>,
      <<"2","1">> }

\* lists of at most n elements of a set
ListsUpTo(S, n) == UNION {[1..k -> S] : k \in 0..n}

\* tokens given to word_number_to_int: "one", "nine", "ten", "twenty",
\* "ninety", "3", "x"
WordTokens ==
    { <<"o","n","e">>,
      <<"n","i","n","e">>,
      <<"t","e","n">>,
      <<"t","w","e","n","t","y">>,
      <<"n","i","n","e","t","y">>,
      <<"3">>,
      <<"x">> }

NormAlphabet == {"a", "A", "3", "!", " ", "TAB", "RSQUO", "LDQUO", "FI_LIG"}

StringsUpTo(alphabet, n) == UNION {[1..k -> alphabet] : k \in 0..n}

Keys == {KeyOf(LEVELS[l], SUBJECTS[s]) : l \in DOMAIN LEVELS, s \in DOMAIN SUBJECTS}

\* the questions of the bank ("question", the prompt, is only displayed)
Q1 == [topic |-> "Algebra", answer |-> [isList |-> FALSE, val |-> <<"t","h","r","e","e">>]]

Q2 == [topic |-> "Number", answer |-> [isList |-> TRUE, val |-> <<<<"3">>, <<"t","e","n">>>>]]

NoFile == [exists |-> FALSE, questions |-> <<>>]

File(qs) == [exists |-> TRUE, questions |-> qs]

\* the questions directory: GCSE_Maths.json with two questions; no file at
\* all; ALevel_Maths.json with one question beside a GCSE_Maths.json of []
QuestionDirs ==
    { [k \in Keys |-> IF k = KeyOf("GCSE", "Maths") THEN File(<<Q1, Q2>>) ELSE NoFile],
      [k \in Keys |-> NoFile],
      [k \in Keys |-> IF k = KeyOf("ALevel", "Maths") THEN File(<<Q1>>)
                      ELSE IF k = KeyOf("GCSE", "Maths") THEN File(<<>>)
                      ELSE NoFile] }

\* what the user types as an answer: "3", "three", "x"
SysResponses == {<<"3">>, <<"t","h","r","e","e">>, <<"x">>}

\* the store a well-formed performance.json holds at the start
InitialStores ==
    { Put(EmptyMap, KeyOf("ALevel", "Physics"), Put(EmptyMap, "Waves", Stats(2, 1))) }

InitialFiles ==
    {[kind |-> k, store |-> EmptyMap] : k \in {"missing", "empty", "malformed"}}
    \cup {save_performance(s) : s \in InitialStores}

\* numbers typed at choose_option: 0 stands for every invalid input; of the
\* subjects the first one, Maths, is chosen
LevelChoices == 0..(Len(LEVELS) + 2)

SubjectChoices == {0, 1, Len(SUBJECTS) + 1, Len(SUBJECTS) + 2}

\* the q_index of a web request: one before the first and one past the two
\* questions of the largest bank
QIndexes == -1..2

(***************************************************************************)
(* Defaults of the variables a specification does not use                  *)
(***************************************************************************)
SysIdle ==
    /\ performance = EmptyMap
    /\ disk = [kind |-> "missing", store |-> EmptyMap]
    /\ questionFiles = [k \in Keys |-> NoFile]
    /\ pc = "idle"
    /\ quizKey = [level |-> "", subject |-> ""]
    /\ quizIdx = 0
    /\ verdict = [accepted |-> FALSE, matched |-> NoneV]
    /\ web = [handler |-> "none", status |-> "none", credited |-> FALSE]

(***************************************************************************)
(* normalize_text applied to a string, and again to its result             *)
(***************************************************************************)
InitNorm ==
    /\ SysIdle
    /\ hasRapidfuzz = FALSE
    /\ arg \in StringsUpTo(NormAlphabet, MaxLen)
    /\ out = <<>>
    /\ phase = "input"

NormalizeOnce ==
    /\ phase = "input"
    /\ out' = <<normalize_text(arg)>>
    /\ phase' = "once"
    /\ UNCHANGED <<sysVars, arg>>

NormalizeTwice ==
    /\ phase = "once"
    /\ out' = out \o <<normalize_text(out[1])>>
    /\ phase' = "twice"
    /\ UNCHANGED <<sysVars, arg>>

NextNorm == NormalizeOnce \/ NormalizeTwice

SpecNorm == InitNorm /\ [][NextNorm]_vars

\* C8: normalize_text is idempotent, and its result holds only characters of
\* [0-9a-z] and single interior spaces, with no space at either end.
IsNormalForm(s) ==
    /\ \A i \in DOMAIN s : IsAlnumLower(s[i]) \/ s[i] = " "
    /\ s # <<>> => s[1] # " " /\ s[Len(s)] # " "
    /\ \A i \in 1..(Len(s) - 1) : ~(s[i] = " " /\ s[i + 1] = " ")

C8_NormalizeIdempotent ==
    /\ phase \in {"once", "twice"} => IsNormalForm(out[1])
    /\ phase = "twice" => out[2] = out[1]

\* a string with punctuation between letters, normalised twice
C8_Witness ==
    /\ phase = "twice"
    /\ arg = <<"A", "!", "a">>
    /\ out[1] = <<"a", " ", "a">>

(***************************************************************************)
(* The matcher of ask_question on a response and a list of answers         *)
(***************************************************************************)
InitMatch ==
    /\ SysIdle
    /\ hasRapidfuzz \in BOOLEAN
    /\ arg \in [user : MatchResponses, answers : ListsUpTo(MatchAnswers, MaxAnswers)]
    /\ out = <<>>
    /\ phase = "input"

RunMatcher ==
    /\ phase = "input"
    /\ out' = MatchLoop(arg.user, arg.answers, 1, hasRapidfuzz)
    /\ phase' = "done"
    /\ UNCHANGED <<sysVars, arg>>

NextMatch == RunMatcher

SpecMatch == InitMatch /\ [][NextMatch]_vars

AnyRule(user_raw, ca_raw, rf) ==
    \/ Rule1(user_raw, ca_raw, rf)
    \/ Rule2(user_raw, ca_raw, rf)
    \/ Rule3(user_raw, ca_raw, rf)
    \/ Rule4(user_raw, ca_raw, rf)
    \/ Rule5(user_raw, ca_raw, rf)

\* positions of the answers that satisfy at least one of the five rules
Hits == {i \in DOMAIN arg.answers : AnyRule(arg.user, arg.answers[i], hasRapidfuzz)}

\* C3: the matcher accepts exactly when some canonical answer satisfies one
\* of the five rules; matched is then the original text of the earliest such
\* answer of the list, no later answer is evaluated, and matched is none
\* when the response is rejected.
C3_FirstMatchWins ==
    phase = "done" =>
        LET hits == Hits
            first == CHOOSE i \in hits : \A j \in hits : i <= j
        IN  /\ out.accepted <=> hits # {}
            /\ hits # {} =>
                  /\ out.matched = Some(arg.answers[first])
                  /\ out.evaluated = first
            /\ hits = {} => out.matched = NoneV /\ out.evaluated = Len(arg.answers)

\* "3" against ["three", "3"]: both answers satisfy a rule, the first is matched
C3_Witness ==
    /\ phase = "done"
    /\ arg.user = <<"3">>
    /\ arg.answers = <<<<"t","h","r","e","e">>, <<"3">>>>
    /\ out.accepted
    /\ out.matched = Some(<<"t","h","r","e","e">>)
    /\ out.evaluated = 1

\* C9: a canonical answer whose normalised form is empty satisfies none of
\* the rules 1, 2, 4 and 5 for any response; if it is ever the matched
\* answer, rule 3 matched it.
C9_EmptyAnswerOnlyNumeric ==
    phase = "done" =>
        \A i \in DOMAIN arg.answers :
            normalize_text(arg.answers[i]) = <<>> =>
                /\ ~Rule1(arg.user, arg.answers[i], hasRapidfuzz)
                /\ ~Rule2(arg.user, arg.answers[i], hasRapidfuzz)
                /\ ~Rule4(arg.user, arg.answers[i], hasRapidfuzz)
                /\ ~Rule5(arg.user, arg.answers[i], hasRapidfuzz)
                /\ (out.accepted /\ out.evaluated = i) => out.rule = 3

\* "x" against ["?!", "three"]: the answer "?!" was evaluated and passed over
C9_Witness ==
    /\ phase = "done"
    /\ arg.user = <<"x">>
    /\ arg.answers = <<<<"?","!">>, <<"t","h","r","e","e">>>>
    /\ normalize_text(arg.answers[1]) = <<>>
    /\ ~out.accepted
    /\ out.evaluated = 2

(***************************************************************************)
(* word_number_to_int on a line of tokens                                  *)
(***************************************************************************)
InitWord ==
    /\ SysIdle
    /\ hasRapidfuzz = FALSE
    /\ arg \in ListsUpTo(WordTokens, MaxTokens)
    /\ out = <<>>
    /\ phase = "input"

ParseWordNumber ==
    /\ phase = "input"
    /\ out' = word_number_to_int(JoinSpace(arg))
    /\ phase' = "done"
    /\ UNCHANGED <<sysVars, arg>>

NextWord == ParseWordNumber

SpecWord == InitWord /\ [][NextWord]_vars

IsSingleWord(tokens) == Len(tokens) = 1 /\ InWordNums(tokens[1])

IsTensOnes(tokens) ==
    /\ Len(tokens) = 2
    /\ InWordNums(tokens[1]) /\ WordNumValue(tokens[1]) >= 20
    /\ InWordNums(tokens[2]) /\ WordNumValue(tokens[2]) < 10

\* C10: a token outside the vocabulary gives none; one vocabulary word gives
\* its value; "<tens-word> <ones-word>" gives the sum; and a value comes out
\* only for inputs of these two shapes.
C10_OnlyTwoShapes ==
    phase = "done" =>
        /\ (\E i \in DOMAIN arg : ~InWordNums(arg[i])) => out = NoneV
        /\ IsSingleWord(arg) => out = Some(WordNumValue(arg[1]))
        /\ IsTensOnes(arg) => out = Some(WordNumValue(arg[1]) + WordNumValue(arg[2]))
        /\ out # NoneV => IsSingleWord(arg) \/ IsTensOnes(arg)

(***************************************************************************)
(* The terminal program and the web handlers over one performance.json     *)
(***************************************************************************)
FnIdle ==
    /\ arg = <<>>
    /\ out = <<>>
    /\ phase = "idle"

NoWeb == [handler |-> "none", status |-> "none", credited |-> FALSE]

NoVerdict == [accepted |-> FALSE, matched |-> NoneV]

NoQuiz == [level |-> "", subject |-> ""]

Init ==
    /\ FnIdle
    /\ performance = EmptyMap
    /\ disk \in InitialFiles
    /\ questionFiles \in QuestionDirs
    /\ hasRapidfuzz \in BOOLEAN
    /\ pc = "boot"
    /\ quizKey = NoQuiz
    /\ quizIdx = 0
    /\ verdict = NoVerdict
    /\ web = NoWeb

\* choose_option(options, prompt, allow_back=True) on the number typed
choose_option(options, choice) ==
    IF 1 <= choice /\ choice <= Len(options) THEN options[choice]
    ELSE IF choice = Len(options) + 1 THEN "BACK"
    ELSE IF choice = Len(options) + 2 THEN "EXIT"
    ELSE "INVALID"

\* ask_question with the save of start_quiz left out after the last question
AfterAnswer_NoSave(store, file, last) == file

\* start_quiz after ask_question returns: save_performance once the last
\* question has been asked
AfterAnswer(store, file, last) == IF last THEN save_performance(store) ELSE file

\* ask_question after the loop has ended with m: the attempt is recorded
Asked(m, question, store, key) ==
    [performance |-> RecordAnswer(store, key, question.topic, m.accepted),
     accepted |-> m.accepted,
     matched |-> m.matched]

\* ask_question: the verdict of the matcher and the updated store
ask_question(question, store, key, user_answer_raw, rf) ==
    Asked(MatchLoop(user_answer_raw, CorrectAnswersRaw(question), 1, rf),
          question, store, key)

\* main_menu: performance = load_performance()
Boot ==
    /\ pc = "boot"
    /\ performance' = load_performance(disk)
    /\ pc' = "menu"
    /\ UNCHANGED <<disk, questionFiles, hasRapidfuzz, quizKey, quizIdx, verdict,
                   web, fnVars>>

\* main_menu: one pass of the loop on the choice typed
MainMenu(choice) ==
    /\ pc = "menu"
    /\ pc' = CASE choice = "1" -> "level"
               [] choice = "2" -> "view"
               [] choice = "3" -> "exited"
               [] OTHER        -> "menu"
    /\ UNCHANGED <<performance, disk, questionFiles, hasRapidfuzz, quizKey,
                   quizIdx, verdict, web, fnVars>>

\* start_quiz: the level menu
ChooseLevel(choice) ==
    LET level == choose_option(LEVELS, choice)
    IN  /\ pc = "level"
        /\ pc' = CASE level = "INVALID" -> "level"
                   [] level = "EXIT"    -> "exited"
                   [] level = "BACK"    -> "menu"
                   [] OTHER             -> "subject"
        /\ quizKey' = IF level \in {"INVALID", "EXIT", "BACK"} THEN quizKey
                      ELSE [level |-> level, subject |-> ""]
        /\ UNCHANGED <<performance, disk, questionFiles, hasRapidfuzz, quizIdx,
                       verdict, web, fnVars>>

\* start_quiz: the subject menu, the key of the session and the questions
ChooseSubject(choice) ==
    LET subject == choose_option(SUBJECTS, choice)
        key == KeyOf(quizKey.level, subject)
        questions == load_questions(questionFiles, quizKey.level, subject)
    IN  /\ pc = "subject"
        /\ IF subject \in {"INVALID", "EXIT", "BACK"}
           THEN /\ pc' = CASE subject = "INVALID" -> "subject"
                           [] subject = "EXIT"    -> "exited"
                           [] OTHER               -> "menu"
                /\ quizKey' = IF subject = "INVALID" THEN quizKey ELSE NoQuiz
                /\ UNCHANGED <<performance, quizIdx>>
           ELSE /\ performance' = EnsureKey(performance, key)
                /\ quizKey' = [level |-> quizKey.level, subject |-> subject]
                /\ quizIdx' = 0
                /\ pc' = IF questions = <<>> THEN "nobank" ELSE "quiz"
        /\ UNCHANGED <<disk, questionFiles, hasRapidfuzz, verdict, web, fnVars>>

\* start_quiz after ask_question has returned r: the store and the verdict,
\* and after the last question save_performance and the session summary
Answered(r, last) ==
    /\ performance' = r.performance
    /\ verdict' = [accepted |-> r.accepted, matched |-> r.matched]
    /\ quizIdx' = quizIdx + 1
    /\ disk' = AfterAnswer(r.performance, disk, last)
    /\ pc' = IF last THEN "summary" ELSE "quiz"
    /\ UNCHANGED <<questionFiles, hasRapidfuzz, quizKey, web, fnVars>>

\* start_quiz: ask_question on the next question with the answer typed, and
\* after the last question save_performance and the session summary
AnswerOf(questions, key, user_answer_raw) ==
    /\ pc = "quiz"
    /\ AttemptsUnder(performance, key) < MaxAttempted
    /\ Answered(ask_question(questions[quizIdx + 1], performance, key,
                              user_answer_raw, hasRapidfuzz),
                 quizIdx + 1 = Len(questions))

Answer(user_answer_raw) ==
    AnswerOf(load_questions(questionFiles, quizKey.level, quizKey.subject),
             KeyOf(quizKey.level, quizKey.subject), user_answer_raw)

\* input("Press Enter ...") at the end of start_quiz and of view_performance
PressEnter ==
    /\ pc \in {"nobank", "summary", "view"}
    /\ pc' = "menu"
    /\ quizKey' = NoQuiz
    /\ quizIdx' = 0
    /\ verdict' = NoVerdict
    /\ UNCHANGED <<performance, disk, questionFiles, hasRapidfuzz, web, fnVars>>

\* Ctrl-C or end of input at any prompt: the process ends where it stands
Interrupt ==
    /\ pc \in {"menu", "level", "subject", "quiz", "nobank", "summary", "view"}
    /\ pc' = "exited"
    /\ quizKey' = NoQuiz
    /\ quizIdx' = 0
    /\ verdict' = NoVerdict
    /\ UNCHANGED <<performance, disk, questionFiles, hasRapidfuzz, web, fnVars>>

WebKey == KeyOf("GCSE", "Maths")

\* webui.quiz, GET: questions[q_index] is read whatever the list holds
WebQuizGet(q_index) ==
    LET questions == load_questions(questionFiles, "GCSE", "Maths")
        loaded == load_perf(disk)
    IN  /\ web' = [handler |-> "quiz GET",
                   status |-> IF loaded.raised THEN "JSONDecodeError"
                              ELSE IF ~InRange(questions, q_index) THEN "IndexError"
                              ELSE "page",
                   credited |-> FALSE]
        /\ UNCHANGED <<performance, disk, questionFiles, hasRapidfuzz, pc,
                       quizKey, quizIdx, verdict, fnVars>>

\* webui.quiz, POST: load, record the attempt, save, redirect
WebQuizPost(q_index, user_answer) ==
    LET questions == load_questions(questionFiles, "GCSE", "Maths")
        loaded == load_perf(disk)
        store == EnsureKey(loaded.store, WebKey)
        question == PyIndex(questions, q_index)
        credited == WebCredits(user_answer, question)
    IN  IF loaded.raised \/ ~InRange(questions, q_index)
        THEN /\ web' = [handler |-> "quiz POST",
                        status |-> IF loaded.raised THEN "JSONDecodeError"
                                   ELSE "IndexError",
                        credited |-> FALSE]
             /\ UNCHANGED <<performance, disk, questionFiles, hasRapidfuzz, pc,
                            quizKey, quizIdx, verdict, fnVars>>
        ELSE /\ AttemptsUnder(store, WebKey) < MaxAttempted
             /\ disk' = save_performance(
                            WebRecordAnswer(store, WebKey, question.topic, credited))
             /\ web' = [handler |-> "quiz POST", status |-> "redirect",
                        credited |-> credited]
             /\ UNCHANGED <<performance, questionFiles, hasRapidfuzz, pc, quizKey,
                            quizIdx, verdict, fnVars>>

\* webui.summary and webui.performance: load_perf and a page
WebReport(handler) ==
    /\ web' = [handler |-> handler,
               status |-> IF load_perf(disk).raised THEN "JSONDecodeError" ELSE "page",
               credited |-> FALSE]
    /\ UNCHANGED <<performance, disk, questionFiles, hasRapidfuzz, pc, quizKey,
                   quizIdx, verdict, fnVars>>

Next ==
    \/ Boot
    \/ \E choice \in {"1", "2", "3", "x"} : MainMenu(choice)
    \/ \E choice \in LevelChoices : ChooseLevel(choice)
    \/ \E choice \in SubjectChoices : ChooseSubject(choice)
    \/ \E r \in SysResponses : Answer(r)
    \/ PressEnter
    \/ Interrupt
    \/ \E i \in QIndexes : WebQuizGet(i)
    \/ \E i \in QIndexes, r \in SysResponses : WebQuizPost(i, r)
    \/ \E h \in {"summary", "performance"} : WebReport(h)

Spec == Init /\ [][Next]_vars

(***************************************************************************)
(* Claims about the store and the two front ends                           *)
(***************************************************************************)
WellFormedStore(store) ==
    \A k \in DOMAIN store : \A t \in DOMAIN store[k] :
        0 <= store[k][t].correct /\ store[k][t].correct <= store[k][t].attempted

\* C1: from a store whose entries satisfy 0 <= correct <= attempted, every
\* topic entry of every session key keeps 0 <= correct <= attempted, in the
\* terminal's store and in the file, whatever is answered in either front end.
C1_CorrectAtMostAttempted ==
    /\ WellFormedStore(performance)
    /\ disk.kind = "json" => WellFormedStore(disk.store)

\* a terminal session ended on an accepted answer, after an accepted and
\* saved web answer, with an entry answered right every time
C1_Witness ==
    /\ pc = "summary"
    /\ verdict.accepted
    /\ web.status = "redirect"
    /\ web.credited
    /\ WebKey \in DOMAIN performance
    /\ \E t \in DOMAIN performance[WebKey] :
          performance[WebKey][t].attempted >= 1
          /\ performance[WebKey][t].correct = performance[WebKey][t].attempted
    /\ \E t \in DOMAIN performance[WebKey] :
          performance[WebKey][t].correct < performance[WebKey][t].attempted

\* the entry of a topic, {attempted: 0, correct: 0} when it is absent
EntryOrZero(topics, topic) ==
    IF topic \in DOMAIN topics THEN topics[topic] ELSE Stats(0, 0)

\* new is old with one answer on (key, topic) recorded, and nothing else
OneAnswerRecorded(old, new, key, topic, accepted) ==
    /\ DOMAIN new = DOMAIN old
    /\ \A k \in DOMAIN old \ {key} : new[k] = old[k]
    /\ DOMAIN new[key] = DOMAIN old[key] \cup {topic}
    /\ \A t \in DOMAIN old[key] \ {topic} : new[key][t] = old[key][t]
    /\ new[key][topic].attempted = EntryOrZero(old[key], topic).attempted + 1
    /\ new[key][topic].correct =
          EntryOrZero(old[key], topic).correct + (IF accepted THEN 1 ELSE 0)

\* a step of the terminal that asks a question
IsAskStep == pc = "quiz" /\ quizIdx' = quizIdx + 1

\* a step of the web that saves the store
IsWebSaveStep == disk' # disk /\ pc' = pc /\ performance' = performance

AskedTopic ==
    load_questions(questionFiles, quizKey.level, quizKey.subject)[quizIdx + 1].topic

C2_Step ==
    /\ IsAskStep =>
          OneAnswerRecorded(performance, performance',
                            KeyOf(quizKey.level, quizKey.subject), AskedTopic,
                            verdict'.accepted)
    /\ IsWebSaveStep =>
          \E i \in QIndexes :
              /\ InRange(load_questions(questionFiles, "GCSE", "Maths"), i)
              /\ OneAnswerRecorded(
                    EnsureKey(load_perf(disk).store, WebKey), disk'.store, WebKey,
                    PyIndex(load_questions(questionFiles, "GCSE", "Maths"), i).topic,
                    web'.credited)

\* C2: answering one question for (key, topic) creates the entry as
\* {attempted: 0, correct: 0} when absent, adds 1 to attempted, adds 1 to
\* correct exactly when the answer was accepted, and leaves every other
\* topic entry and every other session key as it was.
C2_AnswerFrame == [][C2_Step]_vars

\* the second question of a session was rejected on a fresh topic, beside
\* the topic of the first question and the key of another subject
C2_Witness ==
    /\ pc = "summary"
    /\ quizIdx = 2
    /\ ~verdict.accepted
    /\ DOMAIN performance = {WebKey, KeyOf("ALevel", "Physics")}
    /\ performance[KeyOf("ALevel", "Physics")] = Put(EmptyMap, "Waves", Stats(2, 1))
    /\ performance[WebKey] =
          Put(Put(EmptyMap, "Algebra", Stats(1, 1)), "Number", Stats(1, 0))

\* C4: the web POST /quiz handler credits a response exactly when the
\* terminal's matcher accepts it for the same question.
C4_Step ==
    \A i \in QIndexes : \A r \in SysResponses :
        (WebQuizPost(i, r) /\ web'.status = "redirect") =>
            web'.credited =
                MatchLoop(r, CorrectAnswersRaw(
                                 PyIndex(load_questions(questionFiles, "GCSE", "Maths"), i)),
                          1, hasRapidfuzz).accepted

C4_WebScoresLikeTerminal == [][C4_Step]_vars

\* the attempts recorded under every key never go down, and keys stay
Grows(old, new) ==
    /\ DOMAIN old \subseteq DOMAIN new
    /\ \A k \in DOMAIN old :
          /\ DOMAIN old[k] \subseteq DOMAIN new[k]
          /\ \A t \in DOMAIN old[k] : old[k][t].attempted <= new[k][t].attempted

C5_Step ==
    \* the terminal reads the file at the start and never again
    /\ (pc # "boot" /\ performance' # performance) =>
          pc \in {"subject", "quiz"} /\ Grows(performance, performance')
    \* the last question of a session: the file holds the store in memory
    /\ (IsAskStep /\ quizIdx' =
            Len(load_questions(questionFiles, quizKey.level, quizKey.subject))) =>
          pc' = "summary" /\ disk' = save_performance(performance')
    /\ (pc = "summary" /\ pc' = "menu") => performance' = performance
    \* a web POST that answers with its redirect has recorded and saved
    /\ (web' # web /\ web'.status = "redirect") =>
          /\ disk'.kind = "json"
          /\ AttemptsUnder(disk'.store, WebKey) =
                AttemptsUnder(load_perf(disk).store, WebKey) + 1
    \* and the file changes in no other web step
    /\ IsWebSaveStep => web'.handler = "quiz POST" /\ web'.status = "redirect"

\* C5: every recorded attempt is written back at its checkpoint: the terminal
\* loads the store once, and when a session has asked its last question the
\* file equals the store in memory before the main menu returns; a web POST
\* /quiz loads, records and saves before its response.
C5_SavedAtCheckpoint == [][C5_Step]_vars

\* a session of two questions has just been saved over a file the web wrote
C5_Witness ==
    /\ pc = "summary"
    /\ quizIdx = 2
    /\ web.status = "redirect"
    /\ disk = save_performance(performance)
    /\ AttemptsUnder(performance, WebKey) = 2

\* C6: loading the performance file never fails: a missing, empty or
\* malformed file loads as {} wherever the store is loaded.
C6_Step ==
    /\ (pc = "boot" /\ pc' = "menu" /\ disk.kind # "json") => performance' = EmptyMap
    /\ web'.status # "JSONDecodeError"

C6_LoadNeverFails == [][C6_Step]_vars

\* C7: a missing question file is no failure: start_quiz returns to the main
\* menu with no topic entry changed and nothing saved, and the web /quiz
\* handlers answer instead of raising.
C7_Step ==
    /\ (pc = "subject" /\ pc' = "nobank") =>
          /\ disk' = disk
          /\ \A k \in DOMAIN performance : performance'[k] = performance[k]
          /\ \A k \in DOMAIN performance' \ DOMAIN performance :
                performance'[k] = EmptyMap
    /\ (pc = "nobank" /\ pc' # pc) =>
          pc' \in {"menu", "exited"} /\ performance' = performance
    /\ (~questionFiles[WebKey].exists /\ web'.handler \in {"quiz GET", "quiz POST"}) =>
          web'.status # "IndexError"

C7_MissingBankHarmless == [][C7_Step]_vars

(***************************************************************************)
(* ask_question on one question, with one response typed, from a store     *)
(***************************************************************************)
AskKey == KeyOf("GCSE", "Maths")

AskTopic == "Algebra"

\* responses typed at the prompt: nothing, a space, a space and a tab,
\* "?!", "3", "x"
AskResponses ==
    { <<>>,
      <<" ">>,
      <<" ", "TAB">>,
      <<"?","!">>,
      <<"3">>,
      <<"x">> }

\* the store when ask_question is called: start_quiz has created the key; the
\* topic is new, or has been answered before
AskStores ==
    { Put(EmptyMap, AskKey, EmptyMap),
      Put(Put(EmptyMap, AskKey, Put(EmptyMap, AskTopic, Stats(2, 1))),
          KeyOf("ALevel", "Physics"), Put(EmptyMap, "Waves", Stats(1, 1))) }

\* the question record: "answer" is a string when there is one answer and a
\* list otherwise
AskQuestion(answers) ==
    [topic |-> AskTopic,
     answer |-> IF Len(answers) = 1 THEN [isList |-> FALSE, val |-> answers[1]]
                ELSE [isList |-> TRUE, val |-> answers]]

InitAsk ==
    /\ SysIdle
    /\ hasRapidfuzz \in BOOLEAN
    /\ arg \in [user : AskResponses,
                answers : ListsUpTo(MatchAnswers, MaxAnswers),
                store : AskStores]
    /\ out = <<>>
    /\ phase = "input"

AskOnce ==
    /\ phase = "input"
    /\ out' = ask_question(AskQuestion(arg.answers), arg.store, AskKey, arg.user,
                           hasRapidfuzz)
    /\ phase' = "done"
    /\ UNCHANGED <<sysVars, arg>>

NextAsk == AskOnce

SpecAsk == InitAsk /\ [][NextAsk]_vars

\* C11: a response whose normalized form is empty (blank, whitespace only or
\* punctuation only) satisfies none of the five rules with any canonical
\* answer, so it is rejected with no matched answer; the attempt is still
\* recorded: attempted of the topic grows by 1, correct stays as it was, and
\* nothing else in the store changes.
C11_EmptyResponseCounted ==
    (phase = "done" /\ normalize_text(arg.user) = <<>>) =>
        /\ \A i \in DOMAIN arg.answers :
               ~AnyRule(arg.user, arg.answers[i], hasRapidfuzz)
        /\ ~out.accepted
        /\ out.matched = NoneV
        /\ OneAnswerRecorded(arg.store, out.performance, AskKey, AskTopic, FALSE)

\* "?!" has been typed for a question whose answers are "?!" and "3", on a
\* topic that stood at 2 attempted, 1 correct: it now stands at 3 and 1
C11_Witness ==
    /\ phase = "done"
    /\ arg.user = <<"?","!">>
    /\ arg.answers = << <<"?","!">>, <<"3">> >>
    /\ AskTopic \in DOMAIN arg.store[AskKey]
    /\ out.performance[AskKey][AskTopic] = Stats(3, 1)
    /\ ~out.accepted

====
